---- MODULE Spec2Model ----
(***************************************************************************)
(* A model of graphmatrix-rs (src/src/lib.rs): the CSR construction        *)
(* (from_edgelist / compress), the read-only queries (dims, ne, row,       *)
(* row_len, has_index) and GraphMatrixIterator.                            *)
(*                                                                         *)
(* Vec<X> is a TLA+ sequence; the 0-based element v[i] is v[i+1] here.     *)
(* The generic index type T is one of a few fixed-width integer types and  *)
(* usize is an unsigned word of UsizeBits bits.  Lengths of vectors and    *)
(* the counts derived from them are plain naturals: a Vec's length always  *)
(* fits the platform word, so they cannot overflow in the program.         *)
(***************************************************************************)
EXTENDS Integers, Sequences, FiniteSets, TLC

\* ---------------------------------------------------------------- bounds
MaxLen == 3        \* longest edge list given to from_edgelist
UsizeBits == 2     \* width of the platform word (usize)
MaxCalls == MaxLen + 2   \* next() is called at most this many times on one iterator

\* ------------------------------------------------------- the integer types
UsizeMax == 2^UsizeBits - 1

Unsigned(b) == [signed |-> FALSE, bits |-> b, min |-> 0, max |-> 2^b - 1]
Signed(b) == [signed |-> TRUE, bits |-> b, min |-> 0 - 2^(b-1), max |-> 2^(b-1) - 1]

\* The instantiations of the type parameter T: a 1-bit unsigned type, a 2-bit
\* signed type, and usize itself.
PrimInt == {Unsigned(1), Signed(2), Unsigned(UsizeBits)}

\* Overflow checks on (debug) or off (release): arithmetic overflow panics
\* or wraps.  Which build runs shows only at the first overflow.
Builds == {"debug", "release"}

\* The values of type ty that inputs are drawn from: the small indices, -1
\* where the type is signed, and the type's maximum.
Vals(ty) == {v \in ((-1)..2) \cup {ty.max} : ty.min <= v /\ v <= ty.max}

\* v.to_usize(): Some(v) exactly when v is representable in usize.
to_usize_ok(v) == 0 <= v /\ v <= UsizeMax

\* ------------------------------------------------------------- sequences
RECURSIVE SeqMax(_)
SeqMax(s) == IF Len(s) = 1 THEN s[1]
             ELSE LET m == SeqMax(Tail(s)) IN IF s[1] > m THEN s[1] ELSE m

\* Ord for (T, T): lexicographic.
TupleLess(a, b) == a[1] < b[1] \/ (a[1] = b[1] /\ a[2] < b[2])

RECURSIVE SortedInsert(_, _)
SortedInsert(s, e) ==
    IF s = <<>> THEN <<e>>
    ELSE IF TupleLess(Head(s), e) THEN <<Head(s)>> \o SortedInsert(Tail(s), e)
    ELSE <<e>> \o s

sort_unstable_id(s) == s

RECURSIVE sort_unstable(_)
sort_unstable(s) ==
    IF s = <<>> THEN <<>> ELSE SortedInsert(sort_unstable(Tail(s)), Head(s))

dedup_id(s) == s

\* Vec::dedup: removes consecutive repeated elements.
RECURSIVE dedup(_)
dedup(s) ==
    IF Len(s) <= 1 THEN s
    ELSE IF s[1] = s[2] THEN dedup(Tail(s))
    ELSE <<s[1]>> \o dedup(Tail(s))

unzip1(s) == [i \in 1..Len(s) |-> s[i][1]]
unzip2(s) == [i \in 1..Len(s) |-> s[i][2]]

\* ---------------------------------------------------------------- compress
\* for v in &row { w[v.to_usize()?] += 1 }, from the k-th element on.
RECURSIVE Histogram(_, _, _)
Histogram(rowv, k, w) ==
    IF k > Len(rowv) THEN [st |-> "ok", w |-> w]
    ELSE LET v == rowv[k] IN
         IF ~to_usize_ok(v) THEN [st |-> "InvalidIndex", w |-> w]
         ELSE IF v >= Len(w) THEN [st |-> "panic", w |-> w]
         ELSE Histogram(rowv, k + 1, [w EXCEPT ![v + 1] = @ + 1])

RECURSIVE PrefixSumNoCarry(_, _, _)
PrefixSumNoCarry(w, k, acc) ==
    IF k > Len(w) THEN acc
    ELSE PrefixSumNoCarry(w, k + 1, Append(acc, w[k]))

\* w.iter().fold(vec![0], |acc, val| acc.push(val + acc.last())), from the
\* k-th element of w on.
RECURSIVE PrefixSum(_, _, _)
PrefixSum(w, k, acc) ==
    IF k > Len(w) THEN acc
    ELSE PrefixSum(w, k + 1, Append(acc, w[k] + acc[Len(acc)]))

\* for (j, v) in col.into_iter().enumerate() { ... }, from the j-th edge on
\* (j is 1-based here).
RECURSIVE Fill(_, _, _, _, _)
Fill(rowv, colv, j, w, ja) ==
    IF j > Len(colv) THEN [st |-> "ok", ja |-> ja]
    ELSE LET v == colv[j] IN
         IF ~to_usize_ok(rowv[j]) THEN [st |-> "InvalidIndex", ja |-> ja]
         ELSE LET rj == rowv[j] IN
              IF rj >= Len(w) THEN [st |-> "panic", ja |-> ja]
              ELSE LET p == w[rj + 1] IN
                   IF p >= Len(ja) THEN [st |-> "panic", ja |-> ja]
                   ELSE Fill(rowv, colv, j + 1,
                             [w EXCEPT ![rj + 1] = @ + 1],
                             [ja EXCEPT ![p + 1] = v])

compress(rowv, colv, n) ==
    LET w0 == [i \in 1..n |-> 0]
        ja0 == [i \in 1..Len(colv) |-> 0]
        h == Histogram(rowv, 1, w0)
    IN  IF h.st # "ok" THEN [st |-> h.st, ia |-> <<>>, ja |-> <<>>]
        ELSE LET ia == PrefixSum(h.w, 1, <<0>>)
                 w1 == [ia EXCEPT ![Len(ia)] = 0]
                 f == Fill(rowv, colv, 1, w1, ja0)
             IN  IF f.st # "ok" THEN [st |-> f.st, ia |-> <<>>, ja |-> <<>>]
                 ELSE [st |-> "ok", ia |-> ia, ja |-> f.ja]

\* ---------------------------------------------------------- from_edgelist
NoGraph == [indptr |-> <<>>, indices |-> <<>>]

Max2(a, b) == IF a >= b THEN a ELSE b

\* The result of from_edgelist under build b: st is "ok", "InvalidIndex",
\* or "panic"; gm is the structure when st = "ok"; ovf tells that the
\* addition max + 1 overflowed.
from_edgelist(edges, b) ==
    LET sorted_edgelist == dedup(sort_unstable(edges))
        ss == unzip1(sorted_edgelist)
        ds == unzip2(sorted_edgelist)
    IN  IF ss = <<>> THEN [st |-> "InvalidIndex", gm |-> NoGraph, ovf |-> FALSE]
        ELSE LET m1 == ss[Len(ss)]
                 m2 == SeqMax(ds)
                 mx == Max2(m1, m2)
                 ovf == mx + 1 > UsizeMax
             IN  IF ~to_usize_ok(mx)
                 THEN [st |-> "InvalidIndex", gm |-> NoGraph, ovf |-> FALSE]
                 ELSE IF ovf /\ b = "debug"
                      THEN [st |-> "panic", gm |-> NoGraph, ovf |-> TRUE]
                 ELSE LET m == (mx + 1) % (UsizeMax + 1)
                          c == compress(ss, ds, m)
                      IN  IF c.st # "ok"
                          THEN [st |-> c.st, gm |-> NoGraph, ovf |-> ovf]
                          ELSE [st |-> "ok", ovf |-> ovf,
                                gm |-> [indptr |-> c.ia, indices |-> c.ja]]

\* ----------------------------------------------------------------- queries
dims(g) == <<Len(g.indptr) - 1, Len(g.indptr) - 1>>

ne(g) == Len(g.indices)

NoSlice == <<>>

row_loose(g, r, b) ==
    IF ~to_usize_ok(r) THEN [st |-> "InvalidIndex", val |-> NoSlice, ovf |-> FALSE]
    ELSE IF r > Len(g.indptr) - 1
         THEN [st |-> "BoundsError", val |-> NoSlice, ovf |-> FALSE]
    ELSE IF r + 1 >= Len(g.indptr) THEN [st |-> "ub", val |-> NoSlice, ovf |-> FALSE]
    ELSE [st |-> "ok", ovf |-> FALSE,
          val |-> SubSeq(g.indices, g.indptr[r + 1] + 1, g.indptr[r + 2])]

\* row(r) under build b.  st is "ok" (val is the slice), "InvalidIndex",
\* "BoundsError", "panic" (overflow check or slice range check failed) or
\* "ub" (a get_unchecked past the end of indptr); ovf tells that
\* indptr.len() - 2 overflowed.
row(g, r, b) ==
    LET ovf == Len(g.indptr) < 2 IN
    IF ~to_usize_ok(r) THEN [st |-> "InvalidIndex", val |-> NoSlice, ovf |-> FALSE]
    ELSE IF ovf /\ b = "debug" THEN [st |-> "panic", val |-> NoSlice, ovf |-> TRUE]
    ELSE LET ru == r
             lim == (Len(g.indptr) - 2) % (UsizeMax + 1)
         IN  IF ru > lim THEN [st |-> "BoundsError", val |-> NoSlice, ovf |-> ovf]
             ELSE IF ru + 1 >= Len(g.indptr)
                  THEN [st |-> "ub", val |-> NoSlice, ovf |-> ovf]
             ELSE LET start_index == g.indptr[ru + 1]
                      end_index == g.indptr[ru + 2]
                  IN  IF start_index > end_index \/ end_index > Len(g.indices)
                      THEN [st |-> "panic", val |-> NoSlice, ovf |-> ovf]
                      ELSE [st |-> "ok", ovf |-> ovf,
                            val |-> SubSeq(g.indices, start_index + 1, end_index)]

row_len(g, r, b) ==
    LET rr == row(g, r, b)
    IN  IF rr.st # "ok" THEN [st |-> rr.st, val |-> 0, ovf |-> rr.ovf]
        ELSE [st |-> "ok", val |-> Len(rr.val), ovf |-> rr.ovf]

RECURSIVE binary_search_skip(_, _, _, _)
binary_search_skip(s, x, left, right) ==
    IF left >= right THEN FALSE
    ELSE LET mid == left + ((right - left) \div 2) IN
         IF s[mid + 1] = x THEN TRUE
         ELSE IF s[mid + 1] < x THEN binary_search_skip(s, x, mid + 1, right)
         ELSE binary_search_skip(s, x, left, mid - 1)

\* <[T]>::binary_search(&x).is_ok() on the half-open range [left, right).
RECURSIVE binary_search(_, _, _, _)
binary_search(s, x, left, right) ==
    IF left >= right THEN FALSE
    ELSE LET mid == left + ((right - left) \div 2) IN
         IF s[mid + 1] = x THEN TRUE
         ELSE IF s[mid + 1] < x THEN binary_search(s, x, mid + 1, right)
         ELSE binary_search(s, x, left, mid)

\* T::from(c) of a c that already is a T is always Some(c).
has_index(g, r, c, b) ==
    LET rr == row(g, r, b)
    IN  IF rr.st # "ok" THEN [st |-> rr.st, val |-> FALSE, ovf |-> rr.ovf]
        ELSE [st |-> "ok", ovf |-> rr.ovf,
              val |-> binary_search(rr.val, c, 0, Len(rr.val))]

\* ---------------------------------------------------------------- iterator
\* GraphMatrixIterator::new
new == [curr_rownum |-> 0, curr_colptr |-> 0]

NoItem == <<>>

\* One call of next() on iterator state i over g, for index type ty and
\* build b.  ret is "None", "Some" (item is the pair) or "panic"; it is the
\* iterator state after the call; ovf tells that an addition or subtraction
\* of the call overflowed.
next(g, i, ty, b) ==
    LET rr == row(g, i.curr_rownum, b)
    IN  IF rr.st \in {"InvalidIndex", "BoundsError"}
        THEN [ret |-> "None", item |-> NoItem, it |-> i, ovf |-> rr.ovf]
        ELSE IF rr.st # "ok"
        THEN [ret |-> "panic", item |-> NoItem, it |-> i, ovf |-> rr.ovf]
        ELSE LET row_data == rr.val IN
             IF i.curr_colptr >= Len(row_data)
             THEN [ret |-> "panic", item |-> NoItem, it |-> i, ovf |-> rr.ovf]
             ELSE LET v == <<i.curr_rownum, row_data[i.curr_colptr + 1]>>
                      cp == i.curr_colptr + 1
                  IN  IF cp >= Len(row_data)
                      THEN IF i.curr_rownum + 1 > ty.max
                           THEN IF b = "debug"
                                THEN [ret |-> "panic", item |-> NoItem, ovf |-> TRUE,
                                      it |-> [i EXCEPT !.curr_colptr = cp]]
                                ELSE [ret |-> "Some", item |-> v, ovf |-> TRUE,
                                      it |-> [curr_rownum |-> ty.min,
                                              curr_colptr |-> 0]]
                           ELSE [ret |-> "Some", item |-> v, ovf |-> rr.ovf,
                                 it |-> [curr_rownum |-> i.curr_rownum + 1,
                                         curr_colptr |-> 0]]
                      ELSE [ret |-> "Some", item |-> v, ovf |-> rr.ovf,
                            it |-> [i EXCEPT !.curr_colptr = cp]]

\* ------------------------------------------------------------------- state
VARIABLES
    T,          \* the index type the program is instantiated with
    build,      \* how the program was compiled: "unknown" until an overflow
    edgelist,   \* the argument of from_edgelist
    status,     \* "start", then the outcome of from_edgelist
    gm,         \* the GraphMatrix, once status = "built"
    q,          \* the query made on the structure and what it returned
    iter,       \* "none", "live", or "panic" once a next() call panicked
    it,         \* the GraphMatrixIterator's fields
    ret,        \* what the last next() returned: "Some", "None" or "panic"
    yielded,    \* the items next() has returned so far
    calls,      \* how many times next() was called
    rebuilt     \* from_edgelist(yielded), once taken

vars == <<T, build, edgelist, status, gm, q, iter, it, ret, yielded, calls, rebuilt>>

NoQuery == [kind |-> "none", r |-> 0, c |-> 0, st |-> "none", val |-> <<>>]
NotRebuilt == [st |-> "none", gm |-> NoGraph, ovf |-> FALSE]

RECURSIVE SeqsUpTo(_, _)
SeqsUpTo(S, n) ==
    IF n = 0 THEN {<<>>}
    ELSE LET P == SeqsUpTo(S, n - 1)
         IN  P \cup {Append(s, e) : s \in {p \in P : Len(p) = n - 1}, e \in S}

Init ==
    /\ T \in PrimInt
    /\ build = "unknown"
    /\ edgelist \in SeqsUpTo(Vals(T) \X Vals(T), MaxLen)
    /\ status = "start"
    /\ gm = NoGraph
    /\ q = NoQuery
    /\ iter = "none"
    /\ it = new
    /\ ret = "none"
    /\ yielded = <<>>
    /\ calls = 0
    /\ rebuilt = NotRebuilt

iterVars == <<iter, it, ret, yielded, calls, rebuilt>>
inputVars == <<T, edgelist>>

\* The builds the run so far is consistent with.
BuildChoices == IF build = "unknown" THEN Builds ELSE {build}

\* The build is known once a step's outcome depended on it.
Reveal(b, ovf) == IF ovf THEN b ELSE build

\* let g = GraphMatrix::from_edgelist(edgelist)
FromEdgelist ==
    /\ status = "start"
    /\ \E b \in BuildChoices :
         LET res == from_edgelist(edgelist, b)
         IN  /\ status' = IF res.st = "ok" THEN "built" ELSE res.st
             /\ gm' = res.gm
             /\ build' = Reveal(b, res.ovf)
    /\ UNCHANGED <<inputVars, q, iterVars>>

Dims ==
    /\ status = "built"
    /\ q = NoQuery
    /\ q' = [kind |-> "dims", r |-> 0, c |-> 0, st |-> "ok", val |-> dims(gm)]
    /\ UNCHANGED <<inputVars, build, status, gm, iterVars>>

Ne ==
    /\ status = "built"
    /\ q = NoQuery
    /\ q' = [kind |-> "ne", r |-> 0, c |-> 0, st |-> "ok", val |-> ne(gm)]
    /\ UNCHANGED <<inputVars, build, status, gm, iterVars>>

Row ==
    /\ status = "built"
    /\ q = NoQuery
    /\ \E r \in Vals(T), b \in BuildChoices :
         LET rr == row(gm, r, b)
         IN  /\ q' = [kind |-> "row", r |-> r, c |-> 0, st |-> rr.st, val |-> rr.val]
             /\ build' = Reveal(b, rr.ovf)
    /\ UNCHANGED <<inputVars, status, gm, iterVars>>

RowLen ==
    /\ status = "built"
    /\ q = NoQuery
    /\ \E r \in Vals(T), b \in BuildChoices :
         LET rr == row_len(gm, r, b)
         IN  /\ q' = [kind |-> "row_len", r |-> r, c |-> 0, st |-> rr.st, val |-> rr.val]
             /\ build' = Reveal(b, rr.ovf)
    /\ UNCHANGED <<inputVars, status, gm, iterVars>>

HasIndex ==
    /\ status = "built"
    /\ q = NoQuery
    /\ \E r \in Vals(T), c \in Vals(T), b \in BuildChoices :
         LET rr == has_index(gm, r, c, b)
         IN  /\ q' = [kind |-> "has_index", r |-> r, c |-> c, st |-> rr.st, val |-> rr.val]
             /\ build' = Reveal(b, rr.ovf)
    /\ UNCHANGED <<inputVars, status, gm, iterVars>>

\* let mut i = GraphMatrixIterator::new(&g)
New ==
    /\ status = "built"
    /\ iter = "none"
    /\ iter' = "live"
    /\ it' = new
    /\ UNCHANGED <<inputVars, build, status, gm, q, ret, yielded, calls, rebuilt>>

\* i.next()
IterNext ==
    /\ iter = "live"
    /\ calls < MaxCalls
    /\ \E b \in BuildChoices :
         LET res == next(gm, it, T, b)
         IN  /\ ret' = res.ret
             /\ it' = res.it
             /\ iter' = IF res.ret = "panic" THEN "panic" ELSE "live"
             /\ yielded' = IF res.ret = "Some" THEN Append(yielded, res.item)
                           ELSE yielded
             /\ build' = Reveal(b, res.ovf)
    /\ calls' = calls + 1
    /\ UNCHANGED <<inputVars, status, gm, q, rebuilt>>

\* from_edgelist(collected), once next() has returned None
Rebuild ==
    /\ iter = "live"
    /\ ret = "None"
    /\ rebuilt = NotRebuilt
    /\ \E b \in BuildChoices :
         LET res == from_edgelist(yielded, b)
         IN  /\ rebuilt' = res
             /\ build' = Reveal(b, res.ovf)
    /\ UNCHANGED <<inputVars, status, gm, q, iter, it, ret, yielded, calls>>

Next ==
    \/ FromEdgelist
    \/ Dims
    \/ Ne
    \/ Row
    \/ RowLen
    \/ HasIndex

Spec == Init /\ [][Next]_vars

IterStep ==
    \/ FromEdgelist
    \/ New
    \/ IterNext
    \/ Rebuild

IterSpec == Init /\ [][IterStep]_vars

\* ------------------------------------------------- what the edge list says
Range(s) == {s[i] : i \in 1..Len(s)}

\* The set of distinct edges of the edge list given to from_edgelist.
EdgeSet == Range(edgelist)

SetMax(S) == CHOOSE m \in S : \A x \in S : x <= m

\* 1 + the largest value occurring as a row or a column.
Dim == 1 + SetMax({e[1] : e \in EdgeSet} \cup {e[2] : e \in EdgeSet})

RowCols(r) == {e[2] : e \in {x \in EdgeSet : x[1] = r}}

EdgesBelow(i) == Cardinality({e \in EdgeSet : e[1] < i})

StrictlyAscending(s) == \A i \in 1..(Len(s) - 1) : s[i] < s[i + 1]

PairsAscending(s) == \A i \in 1..(Len(s) - 1) : TupleLess(s[i], s[i + 1])

\* indices[indptr[r] .. indptr[r+1]], read off the arrays.
Slice(g, r) == SubSeq(g.indices, g.indptr[r + 1] + 1, g.indptr[r + 2])

Representable(v) == 0 <= v /\ v <= UsizeMax

\* ------------------------------------------------------------------ claims

\* C1: an iterator over a built structure, driven until None, never faults
\* (also not on a row without edges), and by then it has yielded exactly
\* ne() pairs, which are the distinct edges of E in strictly ascending
\* (row, column) order.
C1_IterYieldsEdges ==
    /\ iter # "panic"
    /\ ret = "None" => /\ Len(yielded) = ne(gm)
                       /\ Range(yielded) = EdgeSet
                       /\ PairsAscending(yielded)

\* C2: for a row r < n and any column c, has_index(r, c) is Ok(true) exactly
\* when (r, c) is an edge of E, and Ok(false) otherwise.
C2_HasIndexIsMembership ==
    (q.kind = "has_index" /\ 0 <= q.r /\ q.r < Dim)
        => /\ q.st = "ok"
           /\ q.val = (<<q.r, q.c>> \in EdgeSet)

C2_Witness ==
    /\ q.kind = "has_index"
    /\ q.st = "ok"
    /\ q.val = TRUE
    /\ Len(Slice(gm, q.r)) >= 2
    /\ q.c # Slice(gm, q.r)[2]

\* C3: from_edgelist returns Err(InvalidIndex) whenever the edge list is
\* empty or some edge has a row or a column that is not representable as a
\* non-negative platform index.
C3_RejectsBadIndex ==
    (/\ status # "start"
     /\ \/ edgelist = <<>>
        \/ \E e \in EdgeSet : ~Representable(e[1]) \/ ~Representable(e[2]))
        => status = "InvalidIndex"

\* C4: row(r) is Err(InvalidIndex) when r does not convert, Err(BoundsError)
\* when the converted r is >= n, and otherwise the slice
\* indices[indptr[r] .. indptr[r+1]]; row_len(r) is the same error or that
\* slice's length; the unchecked reads never pass the end of indptr.
C4_RowContract ==
    LET n == Len(gm.indptr) - 1
        expected == IF ~Representable(q.r) THEN "InvalidIndex"
                    ELSE IF q.r >= n THEN "BoundsError"
                    ELSE "ok"
    IN  /\ q.kind = "row" =>
            /\ q.st = expected
            /\ q.st = "ok" => q.val = Slice(gm, q.r)
        /\ q.kind = "row_len" =>
            /\ q.st = expected
            /\ q.st = "ok" => q.val = Len(Slice(gm, q.r))

C4_Witness ==
    /\ q.kind = "row"
    /\ q.st = "BoundsError"
    /\ q.r = Len(gm.indptr) - 1

\* C5: from_edgelist always returns a structure or an error value: the
\* dimension max + 1 does not overflow and no access of compress is out of
\* bounds, so construction never aborts.
C5_ConstructionNeverAborts == status # "panic"

\* C6: the iterator is finite: no next() call faults, and within the calls
\* made on it (more than any structure here has edges) next() has returned
\* None and goes on returning None.
C6_IteratorFinite ==
    /\ ret # "panic"
    /\ calls = MaxCalls => ret = "None"

\* C7: ne() is the number of distinct pairs of the edge list.
C7_NeCountsDistinct ==
    (status = "built" => ne(gm) = Cardinality(EdgeSet))
    /\ (q.kind = "ne" => q.val = Cardinality(EdgeSet))

C7_Witness ==
    /\ q.kind = "ne"
    /\ q.val >= 2
    /\ Len(edgelist) > q.val

\* C8: round trip: once the drive of the iterator has ended it has ended
\* with None, and from_edgelist of the collected pairs gives arrays
\* identical to those of g.
C8_RoundTrip ==
    (calls > 0 /\ ret # "Some")
        => /\ ret = "None"
           /\ rebuilt # NotRebuilt => (rebuilt.st = "ok" /\ rebuilt.gm = gm)

\* C9: in a built structure every row slice is strictly ascending and holds
\* exactly the columns c with (r, c) in E, all of them smaller than n.
C9_RowsSortedExact ==
    status = "built" =>
        LET n == Len(gm.indptr) - 1
        IN  \A r \in 0..(n - 1) :
              /\ StrictlyAscending(Slice(gm, r))
              /\ Range(Slice(gm, r)) = RowCols(r)
              /\ \A c \in Range(Slice(gm, r)) : c < n

C9_Witness ==
    /\ status = "built"
    /\ Len(edgelist) > ne(gm)
    /\ \E i \in 1..(Len(edgelist) - 1) : TupleLess(edgelist[i + 1], edgelist[i])
    /\ \E r \in 0..(Len(gm.indptr) - 2) : Len(Slice(gm, r)) >= 2

\* C10: indptr has length n + 1 for n = 1 + the largest value in E, starts
\* at 0, is non-decreasing, indptr[i] is the number of distinct edges with
\* row < i, indptr[n] is the length of indices, and dims() is (n, n).
C10_IndptrCounts ==
    /\ status = "built" =>
        /\ Len(gm.indptr) = Dim + 1
        /\ gm.indptr[1] = 0
        /\ \A i \in 1..Dim : gm.indptr[i] <= gm.indptr[i + 1]
        /\ \A i \in 0..Dim : gm.indptr[i + 1] = EdgesBelow(i)
        /\ gm.indptr[Dim + 1] = Len(gm.indices)
        /\ dims(gm) = <<Dim, Dim>>
    /\ q.kind = "dims" => q.val = <<Dim, Dim>>

C10_Witness ==
    /\ q.kind = "dims"
    /\ q.val = <<3, 3>>
    /\ gm.indptr[2] = gm.indptr[3]
    /\ Len(gm.indices) >= 2
====
